---- MODULE Spec2Model ----
(***************************************************************************)
(* Model of solar_calculator_app.py: the SolarDemandCalculator class, the  *)
(* Streamlit handlers of main() that drive it, and the sizing and cost     *)
(* arithmetic of the result page.                                          *)
(*                                                                         *)
(* Python's "/" and every product with a float literal are IEEE 754        *)
(* binary64 operations.  They are modelled bit-exactly for the values the  *)
(* program handles here (non-negative, normal range): a float is a pair    *)
(* [m, e] standing for m * 2^e with m an odd natural number below 2^53,    *)
(* and every operation rounds to nearest, ties to even.  Mantissas exceed  *)
(* the range of the model checker's integers, so they are kept as          *)
(* sequences of limbs, least significant first.                            *)
(***************************************************************************)
EXTENDS Integers, Sequences, FiniteSets

\* ------------------------------------------------------------------------
\* Natural numbers of arbitrary size: little-endian sequences of limbs in
\* 0..Base-1 without a leading (most significant) zero limb; <<>> is 0.
\* ------------------------------------------------------------------------
LimbBits == 15
Base == 2^LimbBits
Precision == 53

RECURSIVE Norm(_)
Norm(a) ==
    IF a = <<>> THEN <<>>
    ELSE IF a[Len(a)] = 0 THEN Norm(SubSeq(a, 1, Len(a) - 1))
    ELSE a

RECURSIVE BigFromInt(_)
BigFromInt(n) ==
    IF n = 0 THEN <<>> ELSE <<n % Base>> \o BigFromInt(n \div Base)

RECURSIVE CmpFrom(_, _, _)
CmpFrom(a, b, i) ==
    IF i = 0 THEN 0
    ELSE IF a[i] < b[i] THEN -1
    ELSE IF a[i] > b[i] THEN 1
    ELSE CmpFrom(a, b, i - 1)

BigCmp(a, b) ==
    IF Len(a) < Len(b) THEN -1
    ELSE IF Len(a) > Len(b) THEN 1
    ELSE CmpFrom(a, b, Len(a))

RECURSIVE AddCarry(_, _, _)
AddCarry(a, b, c) ==
    IF a = <<>> /\ b = <<>> THEN (IF c = 0 THEN <<>> ELSE <<c>>)
    ELSE LET x == IF a = <<>> THEN 0 ELSE Head(a)
             y == IF b = <<>> THEN 0 ELSE Head(b)
             s == x + y + c
         IN  <<s % Base>> \o AddCarry(IF a = <<>> THEN <<>> ELSE Tail(a),
                                      IF b = <<>> THEN <<>> ELSE Tail(b),
                                      s \div Base)

BigAdd(a, b) == AddCarry(a, b, 0)

\* a - b for a >= b
RECURSIVE SubBorrow(_, _, _)
SubBorrow(a, b, c) ==
    IF a = <<>> THEN <<>>
    ELSE LET y == IF b = <<>> THEN 0 ELSE Head(b)
             s == Head(a) - y - c
         IN  <<IF s < 0 THEN s + Base ELSE s>>
             \o SubBorrow(Tail(a), IF b = <<>> THEN <<>> ELSE Tail(b),
                          IF s < 0 THEN 1 ELSE 0)

BigSub(a, b) == Norm(SubBorrow(a, b, 0))

\* a * d for one limb d
RECURSIVE MulCarry(_, _, _)
MulCarry(a, d, c) ==
    IF a = <<>> THEN (IF c = 0 THEN <<>> ELSE <<c>>)
    ELSE LET s == Head(a) * d + c
         IN  <<s % Base>> \o MulCarry(Tail(a), d, s \div Base)

BigMulSmall(a, d) == IF d = 0 THEN <<>> ELSE MulCarry(a, d, 0)

ShiftLimb(a) == IF a = <<>> THEN <<>> ELSE <<0>> \o a

RECURSIVE BigMul(_, _)
BigMul(a, b) ==
    IF b = <<>> THEN <<>>
    ELSE BigAdd(BigMulSmall(a, Head(b)), ShiftLimb(BigMul(a, Tail(b))))

\* largest t in lo..hi with t * d <= cur (lo always qualifies)
RECURSIVE QuoDigit(_, _, _, _)
QuoDigit(cur, d, lo, hi) ==
    IF lo = hi THEN lo
    ELSE LET mid == (lo + hi + 1) \div 2
         IN  IF BigCmp(BigMulSmall(d, mid), cur) <= 0
             THEN QuoDigit(cur, d, mid, hi)
             ELSE QuoDigit(cur, d, lo, mid - 1)

\* quotient and remainder of n by d # 0, schoolbook long division, most
\* significant limb first; rest is the result for the higher limbs.  (The
\* steps are operators with parameters so that each intermediate value is
\* computed once.)
DivDigit(cur, q, d, t) ==
    [q |-> Norm(<<t>> \o q), r |-> BigSub(cur, BigMulSmall(d, t))]

DivCur(cur, q, d) == DivDigit(cur, q, d, QuoDigit(cur, d, 0, Base - 1))

DivStep(h, rest, d) == DivCur(Norm(<<h>> \o rest.r), rest.q, d)

RECURSIVE BigDivMod(_, _)
BigDivMod(n, d) ==
    IF n = <<>> THEN [q |-> <<>>, r |-> <<>>]
    ELSE DivStep(Head(n), BigDivMod(Tail(n), d), d)

RECURSIVE BitLenSmall(_)
BitLenSmall(x) == IF x = 0 THEN 0 ELSE 1 + BitLenSmall(x \div 2)

BitLen(a) ==
    IF a = <<>> THEN 0
    ELSE LimbBits * (Len(a) - 1) + BitLenSmall(a[Len(a)])

RECURSIVE ZeroLimbs(_)
ZeroLimbs(k) == IF k = 0 THEN <<>> ELSE <<0>> \o ZeroLimbs(k - 1)

\* a * 2^k
BigShl(a, k) ==
    IF a = <<>> THEN <<>>
    ELSE ZeroLimbs(k \div LimbBits) \o BigMulSmall(a, 2^(k % LimbBits))

BigOne == <<1>>

BigIsOdd(a) == a # <<>> /\ a[1] % 2 = 1

\* ------------------------------------------------------------------------
\* binary64 values m * 2^e, m odd (or m = 0 and e = 0)
\* ------------------------------------------------------------------------
FZero == [m |-> <<>>, e |-> 0]

RECURSIVE Canon(_, _)
Canon(m, e) ==
    IF m = <<>> THEN FZero
    ELSE IF m[1] = 0 THEN Canon(Tail(m), e + LimbBits)
    ELSE IF m[1] % 2 = 0 THEN Canon(BigDivMod(m, <<2>>).q, e + 1)
    ELSE [m |-> m, e |-> e]

\* the binary64 nearest to (n + f) * 2^e, where 0 <= f < 1 and sticky
\* tells whether f > 0; round to nearest, ties to even.  dm is n split at
\* the s bits that do not fit.
RoundSplit(dm, half, sticky, e) ==
    Canon(IF half > 0 \/ (half = 0 /\ (sticky \/ BigIsOdd(dm.q)))
          THEN BigAdd(dm.q, BigOne) ELSE dm.q, e)

RoundShift(dm, s, sticky, e) ==
    RoundSplit(dm, BigCmp(dm.r, BigShl(BigOne, s - 1)), sticky, e + s)

RoundBits(n, s, sticky, e) ==
    IF s <= 0 THEN Canon(n, e)
    ELSE RoundShift(BigDivMod(n, BigShl(BigOne, s)), s, sticky, e)

RoundNearestEven(n, sticky, e) ==
    RoundBits(n, BitLen(n) - Precision, sticky, e)

FromInt(n) == RoundNearestEven(BigFromInt(n), FALSE, 0)

FMul(x, y) == RoundNearestEven(BigMul(x.m, y.m), FALSE, x.e + y.e)

AddAligned(x, y, e) ==
    RoundNearestEven(BigAdd(BigShl(x.m, x.e - e), BigShl(y.m, y.e - e)),
                     FALSE, e)

FAdd(x, y) == AddAligned(x, y, IF x.e < y.e THEN x.e ELSE y.e)

\* x / y for y # 0: the quotient is carried to at least Precision + 2 bits
\* and a non-zero remainder is the sticky bit
DivRound(dm, e) == RoundNearestEven(dm.q, dm.r # <<>>, e)

DivShifted(x, y, k) == DivRound(BigDivMod(BigShl(x.m, k), y.m), x.e - y.e - k)

DivNeed(x, y, need) == DivShifted(x, y, IF need > 0 THEN need ELSE 0)

FDiv(x, y) ==
    IF x.m = <<>> THEN FZero
    ELSE DivNeed(x, y, Precision + 2 + BitLen(y.m) - BitLen(x.m))

\* the float literal n/d written in decimal (4.5 is Decimal(45, 10))
Decimal(n, d) == FDiv(FromInt(n), FromInt(d))

\* ------------------------------------------------------------------------
\* Bounds and inputs
\* ------------------------------------------------------------------------
MaxLoads == 3

\* SolarDemandCalculator.__init__(system_voltage=48)
DefaultVoltage == 48

\* voltages a caller of the class may pass to the constructor
Voltages == {0, 24, DefaultVoltage}

\* arguments a caller of the class may pass to add_load: two loads that
\* satisfy every constraint of the data model and one that breaks each
ApiInputs ==
    { <<"Fan", 100, 2, 5>>, <<"Pump", 750, 1, 4>>,
      <<"Fan", 0, 1, 5>>, <<"", 100, 2, 5>>,
      <<"Fan", 100, 0, 5>>, <<"Fan", 100, 2, 25>> }

\* indices a caller may pass to list.pop
IndexInputs == (0 - MaxLoads - 1) .. (MaxLoads + 1)

\* what the user may type into the form of the page
CustomNames == {"", "Kettle"}
Quantities == {1, 2}

\* ------------------------------------------------------------------------
\* SolarDemandCalculator
\* ------------------------------------------------------------------------
COMMERCIAL_APPLIANCES ==
    [n \in {"LED Light", "Refrigerator", "Computer", "AC Unit", "Water Pump",
            "Ventilation Fan", "Printer", "Security Camera"} |->
        CASE n = "LED Light"       -> [power_w |-> 20,   typical_hours |-> 8]
          [] n = "Refrigerator"    -> [power_w |-> 300,  typical_hours |-> 24]
          [] n = "Computer"        -> [power_w |-> 150,  typical_hours |-> 8]
          [] n = "AC Unit"         -> [power_w |-> 1500, typical_hours |-> 6]
          [] n = "Water Pump"      -> [power_w |-> 750,  typical_hours |-> 4]
          [] n = "Ventilation Fan" -> [power_w |-> 100,  typical_hours |-> 12]
          [] n = "Printer"         -> [power_w |-> 100,  typical_hours |-> 2]
          [] n = "Security Camera" -> [power_w |-> 50,   typical_hours |-> 24]]

\* the appliances the user picks from the select box in this model
ApplianceNames == {"LED Light", "Computer"}

\* (variant) the cached energy leaves the quantity out
NewLoad_IgnoresQuantity(description, power_w, quantity, hours_per_day) ==
    [description     |-> description,
     power_w         |-> power_w,
     quantity        |-> quantity,
     hours_per_day   |-> hours_per_day,
     daily_energy_wh |-> power_w * hours_per_day]

\* the dict add_load appends
NewLoad(description, power_w, quantity, hours_per_day) ==
    [description     |-> description,
     power_w         |-> power_w,
     quantity        |-> quantity,
     hours_per_day   |-> hours_per_day,
     daily_energy_wh |-> power_w * quantity * hours_per_day]

\* self.loads.append({...}): no argument is checked
add_load(loads, description, power_w, quantity, hours_per_day) ==
    Append(loads, NewLoad(description, power_w, quantity, hours_per_day))

\* sum(load['daily_energy_wh'] for load in self.loads), left to right
RECURSIVE SumDaily(_, _)
SumDaily(loads, n) ==
    IF n = 0 THEN 0 ELSE SumDaily(loads, n - 1) + loads[n].daily_energy_wh

\* sum(load['power_w'] * load['quantity'] for load in self.loads)
RECURSIVE SumPeak(_, _)
SumPeak(loads, n) ==
    IF n = 0 THEN 0
    ELSE SumPeak(loads, n - 1) + loads[n].power_w * loads[n].quantity

\* (variant) the energy total sums the power column
total_energy_wh_SumsPower(loads) == SumPeak(loads, Len(loads))

total_energy_wh(loads) == SumDaily(loads, Len(loads))

peak_power_w(loads) == SumPeak(loads, Len(loads))

\* (variant) no early return for an empty list
IsEmpty_Never(loads) == FALSE

\* "if not self.loads": the early return of calculate_demand
IsEmpty(loads) == Len(loads) = 0

\* total_energy_wh / self.system_voltage raises ZeroDivisionError
DemandRaises(loads, voltage) == ~IsEmpty(loads) /\ voltage = 0

DemandOf(wh, peak, voltage) ==
    [total_energy_wh  |-> wh,
     total_energy_kwh |-> FDiv(FromInt(wh), FromInt(1000)),
     total_ah         |-> FDiv(FromInt(wh), FromInt(voltage)),
     peak_power_w     |-> peak]

\* the dict calculate_demand returns when it does not raise; amounts that
\* Python holds as int stay integers, the quotients are floats (the int 0
\* of the early return and the float 0.0 are the same number)
calculate_demand(loads, voltage) ==
    IF IsEmpty(loads)
    THEN [total_energy_wh |-> 0, total_energy_kwh |-> FZero,
          total_ah |-> FZero, peak_power_w |-> 0]
    ELSE DemandOf(total_energy_wh(loads), peak_power_w(loads), voltage)

\* ------------------------------------------------------------------------
\* list.pop(i)
\* ------------------------------------------------------------------------
\* IndexError: "pop from empty list" or "pop index out of range"
PopRaises(n, i) == n = 0 \/ i >= n \/ i < 0 - n

\* (variant) the position is off by one
PopPosition_OffByOne(n, i) == IF i < 0 THEN i + n ELSE i

\* the position (from 1) list.pop(i) removes: a negative i counts from the end
PopPosition(n, i) == IF i < 0 THEN i + n + 1 ELSE i + 1

RemoveAt(loads, k) ==
    SubSeq(loads, 1, k - 1) \o SubSeq(loads, k + 1, Len(loads))

pop(loads, i) == RemoveAt(loads, PopPosition(Len(loads), i))

\* ------------------------------------------------------------------------
\* The result page: sizing and cost (floats)
\* ------------------------------------------------------------------------
SunHours == Decimal(45, 10)
InverterFactor == Decimal(12, 10)
TotalFactor == Decimal(13, 10)
InstallationFactor == Decimal(3, 10)

\* (variant) 4 sun hours instead of 4.5
pv_size_WholeSunHours(res) == FDiv(res.total_energy_kwh, FromInt(4))

\* pv_size = results['total_energy_kwh'] / 4.5
pv_size(res) == FDiv(res.total_energy_kwh, SunHours)

\* results['total_energy_kwh'] * 2
battery_kwh(res) == FMul(res.total_energy_kwh, FromInt(2))

\* results['peak_power_w']/1000 * 1.2
inverter_kw(res) ==
    FMul(FDiv(FromInt(res.peak_power_w), FromInt(1000)), InverterFactor)

\* equipment_cost = pv_size * 1200 + (results['total_energy_kwh'] * 2) * 600
equipment_cost(res) ==
    FAdd(FMul(pv_size(res), FromInt(1200)),
         FMul(battery_kwh(res), FromInt(600)))

\* total_cost = equipment_cost * 1.3
total_cost(res) == FMul(equipment_cost(res), TotalFactor)

\* equipment_cost * 0.3
installation_cost(res) == FMul(equipment_cost(res), InstallationFactor)

\* ------------------------------------------------------------------------
\* State
\* ------------------------------------------------------------------------
VARIABLES
    system_voltage,    \* calculator.system_voltage
    heap,              \* the list objects, by identity
    calculator_loads,  \* the list st.session_state.calculator.loads refers to
    session_loads,     \* the list st.session_state.loads refers to
    results,           \* <<dict>> returned by the last step if it was the
                       \* demand query, <<>> otherwise
    last,              \* the last operation: name, arguments, outcome
    pre                \* calculator.loads as it was before the last operation

vars == <<system_voltage, heap, calculator_loads, session_loads, results,
          last, pre>>

\* two references are live, so two list objects are enough; an object that
\* no reference reaches any more is reclaimed (emptied)
Cells == {1, 2}

Loads == heap[calculator_loads]

Shown == heap[session_loads]

Done(op, args, result) == [op |-> op, args |-> args, result |-> result]

NoHeap == [c \in Cells |-> <<>>]

\* st.session_state.loads = st.session_state.calculator.loads : the session
\* gets the calculator's own list object, not a copy
HandOut(hp) ==
    /\ session_loads' = calculator_loads
    /\ calculator_loads' = calculator_loads
    /\ heap' = [c \in Cells |-> IF c = calculator_loads THEN hp[c] ELSE <<>>]

\* ------------------------------------------------------------------------
\* main(): one action per button of the page, and the rendering of the
\* result page.  Every handler ends in st.rerun().
\* ------------------------------------------------------------------------
\* if 'calculator' not in st.session_state: SolarDemandCalculator()
\* if 'loads' not in st.session_state: []
Init ==
    /\ system_voltage = DefaultVoltage
    /\ heap = NoHeap
    /\ calculator_loads = 1
    /\ session_loads = 2
    /\ results = <<>>
    /\ last = Done("init", <<>>, "ok")
    /\ pre = <<>>

\* the widgets of the form: a custom name switches the power and hours
\* inputs to their own defaults (100 W, 8 h).  The user leaves power and
\* hours at the value the widget proposes and chooses name and quantity;
\* the widgets' limits (min_value=1, max_value=24) are the guards of the
\* action.
FormPower(appliance_name, custom_name) ==
    IF custom_name # "" THEN 100
    ELSE COMMERCIAL_APPLIANCES[appliance_name].power_w

FormHours(appliance_name, custom_name) ==
    IF custom_name # "" THEN 8
    ELSE COMMERCIAL_APPLIANCES[appliance_name].typical_hours

\* "Add Load"
AddLoadButton ==
    \E appliance_name \in ApplianceNames, custom_name \in CustomNames,
       quantity \in Quantities :
        LET name_to_use == IF custom_name # "" THEN custom_name
                           ELSE appliance_name
            power_w == FormPower(appliance_name, custom_name)
            hours_per_day == FormHours(appliance_name, custom_name)
        IN  /\ Len(Loads) < MaxLoads
            /\ power_w >= 1 /\ quantity >= 1
            /\ hours_per_day >= 1 /\ hours_per_day <= 24
            /\ HandOut([heap EXCEPT ![calculator_loads] =
                   add_load(@, name_to_use, power_w, quantity, hours_per_day)])
            /\ last' = Done("add_load",
                            <<name_to_use, power_w, quantity, hours_per_day>>,
                            "ok")
            /\ pre' = Loads
            /\ results' = <<>>
            /\ UNCHANGED system_voltage

\* the delete button of the i-th displayed load
DeleteButton ==
    \E i \in 0 .. (Len(Shown) - 1) :
        /\ ~IsEmpty(Shown)
        /\ IF PopRaises(Len(Loads), i)
           THEN /\ last' = Done("pop", <<i>>, "IndexError")
                /\ UNCHANGED <<heap, calculator_loads, session_loads>>
           ELSE /\ last' = Done("pop", <<i>>, "ok")
                /\ HandOut([heap EXCEPT ![calculator_loads] = pop(@, i)])
        /\ pre' = Loads
        /\ results' = <<>>
        /\ UNCHANGED system_voltage

\* (variant) only the calculator's list is replaced; the session keeps the
\* list it displays
ClearLists_OnlyCalculator ==
    /\ heap' = [heap EXCEPT ![CHOOSE c \in Cells : c # session_loads] = <<>>]
    /\ calculator_loads' = CHOOSE c \in Cells : c # session_loads
    /\ session_loads' = session_loads

\* calculator.loads = [] ; st.session_state.loads = [] : two new lists
ClearLists ==
    /\ heap' = NoHeap
    /\ calculator_loads' = 1
    /\ session_loads' = 2

\* "Clear All Loads", shown while the displayed list is not empty
ClearAllLoads ==
    /\ ~IsEmpty(Shown)
    /\ ClearLists
    /\ last' = Done("clear", <<>>, "ok")
    /\ pre' = Loads
    /\ results' = <<>>
    /\ UNCHANGED system_voltage

\* a Quick Start button, shown while the displayed list is empty: three
\* add_load calls, then the hand-out
QuickStart(name, a, b, c) ==
    /\ IsEmpty(Shown)
    /\ Len(Loads) + 3 <= MaxLoads
    /\ HandOut([heap EXCEPT ![calculator_loads] =
           add_load(add_load(add_load(@, a[1], a[2], a[3], a[4]),
                             b[1], b[2], b[3], b[4]),
                    c[1], c[2], c[3], c[4])])
    /\ last' = Done(name, <<>>, "ok")
    /\ pre' = Loads
    /\ results' = <<>>
    /\ UNCHANGED system_voltage

SmallOfficeSetup ==
    QuickStart("small_office", <<"LED Lights", 20, 15, 10>>,
               <<"Computers", 150, 5, 8>>, <<"AC Unit", 1500, 1, 6>>)

RetailStoreSetup ==
    QuickStart("retail_store", <<"LED Lights", 20, 30, 12>>,
               <<"Refrigerator", 300, 2, 24>>, <<"AC Unit", 1500, 2, 8>>)

WorkshopSetup ==
    QuickStart("workshop", <<"LED Lights", 20, 20, 10>>,
               <<"Power Tools", 1000, 3, 4>>, <<"Ventilation", 200, 2, 8>>)

\* the demand query, as a step: the dict, or ZeroDivisionError
Query ==
    /\ IF DemandRaises(Loads, system_voltage)
       THEN /\ results' = <<>>
            /\ last' = Done("calculate_demand", <<>>, "ZeroDivisionError")
       ELSE /\ results' = <<calculate_demand(Loads, system_voltage)>>
            /\ last' = Done("calculate_demand", <<>>, "ok")
    /\ pre' = Loads
    /\ UNCHANGED <<system_voltage, heap, calculator_loads, session_loads>>

\* a run of the script with no button pressed: the result page is drawn
\* when the displayed list is not empty
Render ==
    /\ ~IsEmpty(Shown)
    /\ Query

Next ==
    \/ AddLoadButton
    \/ DeleteButton
    \/ ClearAllLoads
    \/ SmallOfficeSetup
    \/ RetailStoreSetup
    \/ WorkshopSetup
    \/ Render

Spec == Init /\ [][Next]_vars

\* ------------------------------------------------------------------------
\* The class and its list, used directly: any constructor argument, any
\* add_load arguments, any index
\* ------------------------------------------------------------------------
InitApi ==
    /\ system_voltage \in Voltages
    /\ heap = NoHeap
    /\ calculator_loads = 1
    /\ session_loads = 2
    /\ results = <<>>
    /\ last = Done("init", <<>>, "ok")
    /\ pre = <<>>

\* calculator.add_load(description, power_w, quantity, hours_per_day)
CallAddLoad ==
    \E a \in ApiInputs :
        /\ Len(Loads) < MaxLoads
        /\ heap' = [heap EXCEPT ![calculator_loads] =
                        add_load(@, a[1], a[2], a[3], a[4])]
        /\ last' = Done("add_load", a, "ok")
        /\ pre' = Loads
        /\ results' = <<>>
        /\ UNCHANGED <<system_voltage, calculator_loads, session_loads>>

\* calculator.loads.pop(i)
CallPop ==
    \E i \in IndexInputs :
        /\ IF PopRaises(Len(Loads), i)
           THEN /\ last' = Done("pop", <<i>>, "IndexError")
                /\ UNCHANGED heap
           ELSE /\ last' = Done("pop", <<i>>, "ok")
                /\ heap' = [heap EXCEPT ![calculator_loads] = pop(@, i)]
        /\ pre' = Loads
        /\ results' = <<>>
        /\ UNCHANGED <<system_voltage, calculator_loads, session_loads>>

\* calculator.loads = [] : the calculator gets a new list object; a list
\* handed out before stays with its holder
CallClear ==
    LET fresh == CHOOSE c \in Cells : c # session_loads
    IN  /\ heap' = [heap EXCEPT ![fresh] = <<>>]
        /\ calculator_loads' = fresh
        /\ last' = Done("clear", <<>>, "ok")
        /\ pre' = Loads
        /\ results' = <<>>
        /\ UNCHANGED <<system_voltage, session_loads>>

\* calculator.calculate_demand()
CallCalculateDemand == Query

NextApi ==
    \/ CallAddLoad
    \/ CallPop
    \/ CallClear
    \/ CallCalculateDemand

SpecApi == InitApi /\ [][NextApi]_vars

\* ------------------------------------------------------------------------
\* The load list is handed out and its holder changes it in place
\* ------------------------------------------------------------------------
\* ... = calculator.loads
CallGetLoads ==
    /\ HandOut(heap)
    /\ last' = Done("get_loads", <<>>, "ok")
    /\ pre' = Loads
    /\ results' = <<>>
    /\ UNCHANGED system_voltage

CallerLoad == NewLoad("Heater", 2000, 1, 3)

Mutated(op, list) ==
    /\ heap' = [heap EXCEPT ![session_loads] = list]
    /\ last' = Done(op, <<>>, "ok")
    /\ pre' = Loads
    /\ results' = <<>>
    /\ UNCHANGED <<system_voltage, calculator_loads, session_loads>>

CallerAppend ==
    /\ Len(Shown) < MaxLoads
    /\ Mutated("caller_append", Append(Shown, CallerLoad))

CallerRemove ==
    /\ ~IsEmpty(Shown)
    /\ Mutated("caller_remove", pop(Shown, 0 - 1))

CallerReplace ==
    /\ ~IsEmpty(Shown)
    /\ Shown[1] # CallerLoad
    /\ Mutated("caller_replace", [Shown EXCEPT ![1] = CallerLoad])

NextCaller ==
    \/ CallAddLoad
    \/ CallGetLoads
    \/ CallCalculateDemand
    \/ CallerAppend
    \/ CallerRemove
    \/ CallerReplace

SpecCaller == InitApi /\ [][NextCaller]_vars

\* ------------------------------------------------------------------------
\* Properties
\* ------------------------------------------------------------------------
\* the constraints of the data model on the arguments of add_load
Invalid(a) == a[1] = "" \/ a[2] <= 0 \/ a[3] < 1 \/ a[4] < 0 \/ a[4] > 24

\* C1: a call of add_load with an empty description, power_w <= 0,
\* quantity < 1 or hours_per_day outside [0, 24] fails with ValidationError
\* and leaves the registry as it was before the call.
C1_AddLoadAtomic ==
    (last.op = "add_load" /\ Invalid(last.args))
        => (last.result = "ValidationError" /\ Loads = pre)

\* C2: removing at an index < 0 or >= the number of loads fails with an
\* out-of-range error (Python's IndexError) and leaves the registry as it
\* was: no load removed, none moved.
C2_RemoveInvalidIndex ==
    (last.op = "pop" /\ (last.args[1] < 0 \/ last.args[1] >= Len(pre)))
        => (last.result = "IndexError" /\ Loads = pre)

\* C3: since no calculator exists with system_voltage <= 0, the demand
\* query never divides by zero, whatever the registry holds.
C3_NoDivisionByZero ==
    (last.op = "calculate_demand") => (last.result # "ZeroDivisionError")

\* the sum of daily_energy_wh over a set of positions of a list, taken in
\* no particular order
RECURSIVE SumOver(_, _)
SumOver(S, loads) ==
    IF S = {} THEN 0
    ELSE LET i == CHOOSE j \in S : TRUE
         IN  loads[i].daily_energy_wh + SumOver(S \ {i}, loads)

Orders(n) ==
    {f \in [1..n -> 1..n] : \A i, j \in 1..n : f[i] = f[j] => i = j}

Reordered(loads, f) == [i \in 1..Len(loads) |-> loads[f[i]]]

\* C4: after any sequence of adds, removes and clears, the total_energy_wh
\* the demand query returns is the sum of daily_energy_wh over exactly the
\* loads now in the registry, and is the same for every order of them.
C4_SumInvariant ==
    (results # <<>>) =>
        /\ results[1].total_energy_wh = SumOver(1..Len(Loads), Loads)
        /\ \A f \in Orders(Len(Loads)) :
               total_energy_wh(Reordered(Loads, f))
                   = results[1].total_energy_wh

C4_Witness ==
    /\ results # <<>>
    /\ last.op = "calculate_demand"
    /\ Len(Loads) = 2
    /\ Loads[1].daily_energy_wh # Loads[2].daily_energy_wh
    /\ Invalid(<<Loads[1].description, Loads[1].power_w, Loads[1].quantity,
                 Loads[1].hours_per_day>>) = FALSE
    /\ results[1].total_energy_wh = 4000

Consistent(load) ==
    load.daily_energy_wh = load.power_w * load.quantity * load.hours_per_day

\* C5: every load the registry holds has daily_energy_wh = power_w *
\* quantity * hours_per_day, after every add, remove, clear, demand query
\* and hand-out of the list to the page.
C5_DailyEnergyConsistent ==
    /\ \A i \in 1..Len(Loads) : Consistent(Loads[i])
    /\ \A i \in 1..Len(Shown) : Consistent(Shown[i])

C5_Witness ==
    /\ last.op = "pop"
    /\ last.result = "ok"
    /\ session_loads = calculator_loads
    /\ Len(Loads) = 2
    /\ Loads[1].quantity = 2
    /\ Loads[1].daily_energy_wh = 320

\* C6: removing a valid index i from n loads leaves n - 1 loads; the loads
\* before position i keep their position, the loads after it move down by
\* one, and none is altered.
C6_RemoveShifts ==
    (last.op = "pop" /\ last.args[1] >= 0 /\ last.args[1] < Len(pre)) =>
        /\ last.result = "ok"
        /\ Len(Loads) = Len(pre) - 1
        /\ \A j \in 1..Len(pre) :
               /\ j < last.args[1] + 1 => Loads[j] = pre[j]
               /\ j > last.args[1] + 1 => Loads[j - 1] = pre[j]

C6_Witness ==
    /\ last.op = "pop"
    /\ last.result = "ok"
    /\ last.args[1] = 1
    /\ Len(pre) = 3
    /\ pre[1] # pre[2]
    /\ pre[2] # pre[3]
    /\ Loads = <<pre[1], pre[3]>>

\* C7: when the holder of the load list it was handed appends to it,
\* removes from it or replaces an element of it, the registry's own loads
\* are unchanged.
C7_HandOutIsSnapshot ==
    (last.op \in {"caller_append", "caller_remove", "caller_replace"})
        => Loads = pre

ZeroDemand ==
    [total_energy_wh |-> 0, total_energy_kwh |-> FZero,
     total_ah |-> FZero, peak_power_w |-> 0]

\* C8: on an empty registry the demand query does not raise and returns
\* zero for total_energy_wh, total_energy_kwh, peak_power_w and total_ah.
C8_EmptyDemandIsZero ==
    (last.op = "calculate_demand" /\ Len(Loads) = 0)
        => (last.result = "ok" /\ results = <<ZeroDemand>>)

C8_Witness ==
    /\ last.op = "calculate_demand"
    /\ Len(Loads) = 0
    /\ system_voltage = 0
    /\ results = <<ZeroDemand>>

\* the three loads of the scenario, in order, at 48 V
IsScenario ==
    /\ system_voltage = 48
    /\ Len(Loads) = 3
    /\ <<Loads[1].power_w, Loads[1].quantity, Loads[1].hours_per_day>>
           = <<20, 15, 10>>
    /\ <<Loads[2].power_w, Loads[2].quantity, Loads[2].hours_per_day>>
           = <<150, 5, 8>>
    /\ <<Loads[3].power_w, Loads[3].quantity, Loads[3].hours_per_day>>
           = <<1500, 1, 6>>

\* everything the scenario states except the inverter rating
ScenarioFigures(res) ==
    /\ res.total_energy_wh = 18000
    /\ res.total_energy_kwh = FromInt(18)
    /\ res.peak_power_w = 2550
    /\ res.total_ah = FromInt(375)
    /\ pv_size(res) = FromInt(4)
    /\ battery_kwh(res) = FromInt(36)
    /\ equipment_cost(res) = FromInt(26400)
    /\ installation_cost(res) = FromInt(7920)
    /\ total_cost(res) = FromInt(34320)
    /\ total_cost(res) = FAdd(equipment_cost(res), installation_cost(res))

\* 3.0599999999999996 = 3445253714938429 * 2^-50, the float next below 3.06
JustBelow306 == [m |-> <<2621, 18350, 30146, 97>>, e |-> 0 - 50]

\* C9 as stated: the scenario gives 18000 Wh, 18 kWh, 2550 W, 375 Ah,
\* a 4.0 kW array, a 36 kWh battery, a 3.06 kW inverter, and costs of
\* 26400, 7920 and 34320 with total = equipment + installation.
C9_ScenarioAsStated ==
    (results # <<>> /\ IsScenario) =>
        /\ ScenarioFigures(results[1])
        /\ inverter_kw(results[1]) = Decimal(306, 100)

\* C9 amended: the same figures, but the inverter rating the program
\* computes is 3.0599999999999996, one unit in the last place below 3.06.
C9_Scenario ==
    (results # <<>> /\ IsScenario) =>
        /\ ScenarioFigures(results[1])
        /\ inverter_kw(results[1]) = JustBelow306
        /\ FAdd(inverter_kw(results[1]), [m |-> <<1>>, e |-> 0 - 51])
               = Decimal(306, 100)

C9_Witness ==
    /\ results # <<>>
    /\ IsScenario
    /\ last.op = "calculate_demand"
    /\ last.result = "ok"
    /\ Loads[1].description = "LED Lights"

\* C10: at the end of every action of the page the displayed list holds
\* the same loads in the same order as the calculator's list.
C10_DisplayedMatchesCalculator == Shown = Loads

C10_Witness ==
    /\ last.op = "clear"
    /\ pre # <<>>
    /\ session_loads # calculator_loads
    /\ Shown = Loads

====
